---------------------------- MODULE Spec2Model ----------------------------
(***************************************************************************)
(* WooCommerce -> Odoo synchronisation bridge.                             *)
(*                                                                         *)
(* The ERP (Odoo) is modelled as four tables (res.partner,                 *)
(* product.product, sale.order, sale.order.line); a record's id is its     *)
(* position in the table, 0 stands for None/False.  Every remote call of   *)
(* OdooClient (one execute_kw round trip, or the search+read pair of       *)
(* search_records) is one atomic step of the task that issues it; tasks    *)
(* are the threads webhook_order / webhook_customer spawn.                 *)
(***************************************************************************)
EXTENDS Integers, Sequences, FiniteSets, TLC

(* ------------------------------ bounds -------------------------------- *)
\* webhook deliveries accepted in one behaviour
MaxDeliveries == 3
\* remote calls that may fail in one behaviour
MaxFailures == 1

(* ------------------------------ values -------------------------------- *)
\* Python values that reach the ERP are tagged with their type: the int 555
\* and the string "555" are different values on the client side.
PyInt(n) == [ty |-> "int", v |-> n]
PyStr(n) == [ty |-> "str", v |-> n]
\* str(x) of an int
str(x) == PyStr(x.v)
\* Text built by an f-string is a sequence of characters.
DigitChar(d) ==
    CASE d = 0 -> "0" [] d = 1 -> "1" [] d = 2 -> "2" [] d = 3 -> "3"
      [] d = 4 -> "4" [] d = 5 -> "5" [] d = 6 -> "6" [] d = 7 -> "7"
      [] d = 8 -> "8" [] d = 9 -> "9"
\* the decimal digits of a natural number
RECURSIVE Digits(_)
Digits(n) ==
    IF n < 10 THEN <<DigitChar(n)>>
    ELSE Append(Digits(n \div 10), DigitChar(n % 10))
\* "{n}" inside an f-string, n an int
Format(n) == IF n < 0 THEN <<"-">> \o Digits(0 - n) ELSE Digits(n)
\* faulty variant: the two ids are joined without the separator
ExternalProductId_NoSeparator(order_id, product_id) ==
    PyStr(Format(order_id) \o Format(product_id))

\* f"{order_id}_{product_id}"
ExternalProductId(order_id, product_id) ==
    PyStr(Format(order_id) \o <<"_">> \o Format(product_id))
\* f"BOOKING_{order_id}_{product_id}"
Sku(order_id, product_id) ==
    PyStr(<<"B", "O", "O", "K", "I", "N", "G", "_">>
            \o Format(order_id) \o <<"_">> \o Format(product_id))
\* Python truthiness of an id (None, False and 0 are falsy)
Truthy(n) == n # 0
\* int(text): an optional sign, then digits with single underscores allowed
\* between digits (PEP 515); anything else raises ValueError
IsDigit(c) == c \in {"0", "1", "2", "3", "4", "5", "6", "7", "8", "9"}
DigitValue(c) == CHOOSE d \in 0..9 : DigitChar(d) = c
Unsigned(text) ==
    IF text # <<>> /\ text[1] \in {"+", "-"} THEN Tail(text) ELSE text
IsIntLiteral(text) ==
    LET body == Unsigned(text)
    IN  /\ body # <<>>
        /\ IsDigit(body[1])
        /\ IsDigit(body[Len(body)])
        /\ \A i \in 1..Len(body) : IsDigit(body[i]) \/ body[i] = "_"
        /\ \A i \in 1..(Len(body) - 1) : ~(body[i] = "_" /\ body[i + 1] = "_")
RECURSIVE DigitsValue(_)
DigitsValue(body) ==
    IF body = <<>> THEN 0
    ELSE LET front == DigitsValue(SubSeq(body, 1, Len(body) - 1))
             c == body[Len(body)]
         IN  IF c = "_" THEN front ELSE 10 * front + DigitValue(c)
ParseInt(text) ==
    IF text[1] = "-" THEN 0 - DigitsValue(Unsigned(text))
    ELSE DigitsValue(Unsigned(text))
\* x_woo_id / x_woo_order_id are text columns: the ERP stores the text of
\* whatever scalar the client sends.
\* faulty variant: the column keeps the value as sent, number or text
ErpChar_Verbatim(x) == x

ErpChar(x) == PyStr(x.v)
\* the other values a client operation returns
PyNone == [ty |-> "None", v |-> 0]
PyBool(b) == [ty |-> "bool", v |-> b]
PyList(s) == [ty |-> "list", v |-> s]

RECURSIVE Gcd(_, _)
Gcd(a, b) == IF b = 0 THEN a ELSE Gcd(b, a % b)
Abs(n) == IF n < 0 THEN -n ELSE n
\* total / quantity, exact, as a reduced fraction with a positive denominator
\* (defined for quantity # 0 only; quantity = 0 raises ZeroDivisionError)
Divide(total, quantity) ==
    LET g == Gcd(Abs(total), Abs(quantity))
        s == IF quantity < 0 THEN -1 ELSE 1
    IN  [num |-> (s * total) \div g, den |-> Abs(quantity) \div g]

(* ------------------------------ inputs -------------------------------- *)
Tasks == {"t1", "t2"}
Models == {"res.partner", "product.product", "sale.order", "sale.order.line"}
Statuses == {"completed", "cancelled", "processing"}
Emails == {"a@x", "b@x"}

LineItem(p, q, tot) == [product_id |-> p, quantity |-> q, total |-> tot]
Order(id, st, cid, em, items) ==
    [id |-> id, status |-> st, customer_id |-> cid, email |-> em, line_items |-> items]
Customer(cid, em) == [id |-> cid, email |-> em]

(* ------------------------------- state -------------------------------- *)
VARIABLES
    uid,          \* OdooClient.uid: cached session id, 0 = None, -1 = False
    partners,     \* res.partner      : Seq of [x_woo_id, email]
    products,     \* product.product  : Seq of [x_woo_id, default_code, list_price]
    orders,       \* sale.order       : Seq of [x_woo_order_id, partner_id, state, noted]
    lines,        \* sale.order.line  : Seq of [order_id, product_id, product_uom_qty, price_unit]
    th,           \* th[t]: the frame (position and locals) of task t
    deliveries,   \* webhooks accepted so far
    failures,     \* remote calls that failed so far
    overlap,      \* some task was started while another one was running
    woo           \* the storefront's catalog: woo[id] = [sku, regular_price] of
                  \* product id, or NoProduct

vars == <<uid, partners, products, orders, lines, th, deliveries, failures, overlap, woo>>
erp == <<partners, products, orders, lines>>

NoCalls == [m \in Models |-> 0]
\* a task that is not running
IdleFrame ==
    [pc |-> "idle", kind |-> "none", data |-> <<>>, bookings |-> <<>>,
     idx |-> 0, success_count |-> 0,
     partner_id |-> 0, order_id |-> 0, product_id |-> 0, result |-> "none",
     \* bookkeeping for the properties, never read by the program:
     existed |-> FALSE,     \* the ERP held a sale order for data.id at the lookup
     lookup |-> "pending",  \* the existence lookup: found, missed or failed
     synced |-> <<>>,       \* per line item: the products the ERP held for it
                            \* at the lookup
     prev |-> <<>>,         \* the customer call this task ran just before
     mapped |-> {},         \* partners mapped to the customer id at the start
     attempted |-> FALSE,   \* create_sale_order_in_odoo was called
     zero_div |-> FALSE,    \* the unit price raised ZeroDivisionError
     clean |-> TRUE,        \* no client operation of this task failed
     creates |-> NoCalls,   \* create calls issued, per model
     writes |-> NoCalls,    \* write calls issued, per model
     missed |-> <<>>,       \* the lookups of this task that failed: at which
                            \* step, and how many records matched at the time
     \* a call of one client operation (kind "client"):
     ret |-> PyNone,        \* the value the operation returned
     ids |-> <<>>,          \* record_ids of search_records
     uid_seen |-> 0,        \* self.uid as `if not self.uid` read it
     auths |-> 0,           \* authenticate calls of this operation
     auth |-> "none",       \* its last authenticate: none, ok or failed
     sent |-> <<>>,         \* the session ids its execute_kw calls carried
     after_failed |-> FALSE, \* the caller's previous authenticate had failed
     \* locals of sync_odoo_to_woo (kind "reverse"):
     odoo_products |-> <<>>, \* the products search_records returned
     sync_count |-> 0,
     \* bookkeeping of the reverse sync, never read by the program:
     pushed |-> <<>>,       \* what sync_product_to_woo returned, per product
     store_reads |-> <<>>,  \* per product: ids of the get_product calls issued
     store_writes |-> <<>>] \* per product: ids of the update_product calls issued

Running(t) == th[t].pc \notin {"idle", "done"}

(* ------------------------ the storefront's side ----------------------- *)
\* ids of the storefront's catalog the model follows: the bookable class 7
\* and the unrelated product 1007
StoreIds == {7, 1007}
StoreProduct(sku, price) == [exists |-> TRUE, sku |-> sku, regular_price |-> price]
NoProduct == [exists |-> FALSE, sku |-> <<>>, regular_price |-> 0]
\* the catalog with the class only, and the one that also has product 1007
Catalog ==
    [id \in StoreIds |->
        IF id = 7 THEN StoreProduct(<<"C", "L", "A", "S", "S">>, 50) ELSE NoProduct]
CatalogWithBoth ==
    [id \in StoreIds |->
        IF id = 7 THEN StoreProduct(<<"C", "L", "A", "S", "S">>, 50)
        ELSE StoreProduct(<<"M", "A", "T">>, 20)]
\* GET products/{id}: the product, or 404
StoreHas(id) == id \in StoreIds /\ woo[id].exists

(* --------------------------- the ERP's side --------------------------- *)
\* ids of the records of a table whose field equals a value (search)
Matching(table, field, value) == {i \in 1..Len(table) : table[i][field] = value}
\* faulty variant: search_records gives the empty list whatever matches
SearchOne_Empty(table, field, value) == {0}

\* search_records(..., limit=1): the record the ERP lists first among the
\* matches; the order is the model's _order, which the client does not set,
\* so any match may come back.  0 = no match.
SearchOne(table, field, value) ==
    IF Matching(table, field, value) = {} THEN {0} ELSE Matching(table, field, value)

(* ------------------------- WooCommerceClient -------------------------- *)
\* order.get('line_items', [])
LineItems(order) == IF "line_items" \in DOMAIN order THEN order.line_items ELSE <<>>

\* extract_booking_data raises KeyError: there is a line item, and it or the
\* order lacks a key that is subscripted
KeyErrorIn(order) ==
    /\ LineItems(order) # <<>>
    /\ \/ ~({"id", "customer_id", "email"} \subseteq DOMAIN order)
       \/ \E i \in 1..Len(LineItems(order)) :
            ~({"product_id", "quantity", "total"} \subseteq DOMAIN LineItems(order)[i])

\* Metadata keys are sequences of characters, so that lower-casing and the
\* substring tests of extract_booking_data are computed, not assumed.
\* str.lower(), one character
LowerChar(c) ==
    CASE c = "A" -> "a"
      [] c = "B" -> "b"
      [] c = "C" -> "c"
      [] c = "D" -> "d"
      [] c = "E" -> "e"
      [] c = "F" -> "f"
      [] c = "G" -> "g"
      [] c = "H" -> "h"
      [] c = "I" -> "i"
      [] c = "J" -> "j"
      [] c = "K" -> "k"
      [] c = "L" -> "l"
      [] c = "M" -> "m"
      [] c = "N" -> "n"
      [] c = "O" -> "o"
      [] c = "P" -> "p"
      [] c = "Q" -> "q"
      [] c = "R" -> "r"
      [] c = "S" -> "s"
      [] c = "T" -> "t"
      [] c = "U" -> "u"
      [] c = "V" -> "v"
      [] c = "W" -> "w"
      [] c = "X" -> "x"
      [] c = "Y" -> "y"
      [] c = "Z" -> "z"
      [] OTHER -> c
\* key.lower()
lower(key) == [i \in 1..Len(key) |-> LowerChar(key[i])]
\* sub in key
Contains(sub, key) ==
    \E i \in 1..(Len(key) - Len(sub) + 1) :
        \A j \in 1..Len(sub) : key[i + j - 1] = sub[j]

\* meta.get('key', '') and meta.get('value', '')
MetaKey(meta) == IF "key" \in DOMAIN meta THEN meta.key ELSE <<>>
MetaValue(meta) == IF "value" \in DOMAIN meta THEN meta.value ELSE ""
\* item.get('meta_data', [])
MetaData(item) == IF "meta_data" \in DOMAIN item THEN item.meta_data ELSE <<>>

\* str(value).isdigit() and int(value), on the texts that occur as values
isdigit(value) == value \in {"0", "3", "12"}
int(value) == CASE value = "0" -> 0 [] value = "3" -> 3 [] value = "12" -> 12

\* faulty variant: the first date found is kept
MetaStep_FirstWins(bd, meta) ==
    LET key == lower(MetaKey(meta))
    IN  IF Contains(<<"b", "o", "o", "k", "i", "n", "g", "_", "d", "a", "t", "e">>, key) \/ Contains(<<"f", "r", "o", "m">>, key)
        THEN IF bd.booking_date = "<absent>"
             THEN [bd EXCEPT !.booking_date = MetaValue(meta)]
             ELSE bd
        ELSE bd

\* extract_booking_data lines 156-168: one metadata entry is looked at
\* ("<absent>": the booking has no such key)
MetaStep(bd, meta) ==
    LET key == lower(MetaKey(meta))
        value == MetaValue(meta)
    IN  IF Contains(<<"b", "o", "o", "k", "i", "n", "g", "_", "d", "a", "t", "e">>, key) \/ Contains(<<"f", "r", "o", "m">>, key)
        THEN [bd EXCEPT !.booking_date = value]
        ELSE IF Contains(<<"p", "e", "r", "s", "o", "n", "s">>, key) \/ Contains(<<"p", "e", "r", "s", "o", "n">>, key)
        THEN [bd EXCEPT !.persons = IF isdigit(value) THEN int(value) ELSE 1]
        ELSE IF Contains(<<"d", "u", "r", "a", "t", "i", "o", "n">>, key)
        THEN [bd EXCEPT !.duration = value]
        ELSE IF Contains(<<"t", "o">>, key) /\ bd.booking_date = "<absent>"
        THEN [bd EXCEPT !.booking_end = value]
        ELSE bd

\* the loop over meta_data
RECURSIVE MetaLoop(_, _)
MetaLoop(bd, meta_data) ==
    IF meta_data = <<>>
    THEN bd
    ELSE MetaLoop(MetaStep(bd, Head(meta_data)), Tail(meta_data))

\* order['date_created'] (orders written without it were created then)
DateCreated(order) ==
    IF "date_created" \in DOMAIN order THEN order.date_created ELSE "2024-05-01T10:00:00"

\* extract_booking_data lines 170-176: the defaults (persons -1: no such key)
WithDefaults(bd, order) ==
    [bd EXCEPT !.booking_date = IF @ = "<absent>" THEN DateCreated(order) ELSE @,
               !.persons = IF @ = -1 THEN 1 ELSE @]

\* extract_booking_data lines 141-178: the booking of one line item
BookingOf(order, item) ==
    WithDefaults(
        MetaLoop([order_id   |-> order.id,
                  product_id |-> item.product_id,
                  quantity   |-> item.quantity,
                  total      |-> item.total,
                  booking_date |-> "<absent>", persons |-> -1,
                  duration |-> "<absent>", booking_end |-> "<absent>"],
                 MetaData(item)),
        order)

\* faulty variant: the bookings come out in reverse line-item order
extract_booking_data_Reversed(order) ==
    [i \in 1..Len(LineItems(order)) |->
        BookingOf(order, LineItems(order)[Len(LineItems(order)) + 1 - i])]

\* extract_booking_data: one booking per line item, in line-item order
extract_booking_data(order) ==
    [i \in 1..Len(LineItems(order)) |-> BookingOf(order, LineItems(order)[i])]

\* get_recent_bookings: the bookings of all fetched orders, in order
RECURSIVE get_recent_bookings(_)
get_recent_bookings(orders_fetched) ==
    IF orders_fetched = <<>>
    THEN <<>>
    ELSE extract_booking_data(Head(orders_fetched))
           \o get_recent_bookings(Tail(orders_fetched))

\* the bookings the loop of the task runs over
Bookings(f) == f.bookings

(* ---------------------------- OdooClient ------------------------------ *)
\* What can happen to one client operation: it goes through, the lazy
\* authenticate() fails (only tried without a session), or the remote call
\* raises.  Every failure is caught inside the client operation.
Outcomes(maxFail) ==
    {"ok"} \cup (IF failures < maxFail
                 THEN {"call_fail"} \cup (IF uid = 0 THEN {"auth_fail"} ELSE {})
                 ELSE {})
\* self.uid after `if not self.uid: self.authenticate()`
UidAfter(o) == IF uid # 0 THEN uid ELSE IF o = "auth_fail" THEN 0 ELSE 1
\* bookkeeping every client operation shares
Remote(o) ==
    /\ uid' = UidAfter(o)
    /\ failures' = IF o = "ok" THEN failures ELSE failures + 1

\* the issued create / write calls of a task, per model
Created(f, m) == [f EXCEPT !.creates[m] = @ + 1]
Wrote(f, m) == [f EXCEPT !.writes[m] = @ + 1]
Failed(f, o) == IF o = "ok" THEN f ELSE [f EXCEPT !.clean = FALSE]
\* bookkeeping of a lookup that failed: n records matched its domain, alt
\* matched the domain of the lookup that follows it
Missed(f, o, n, alt) ==
    IF o = "ok" THEN f
    ELSE [f EXCEPT !.missed = Append(@, [pc |-> f.pc, idx |-> f.idx, n |-> n, alt |-> alt])]
\* faulty variant: a lookup that failed still answers with the record
Found_Anyway(o, hit) == hit

\* search_records returns [] when the call raised, and
\* get_record_by_external_id then None: the caller sees "no record"
Found(o, hit) == IF o = "ok" THEN hit ELSE 0
(* ---------------------------- SyncService ----------------------------- *)
Bool(b) == IF b THEN "True" ELSE "False"
Return(f, r) == [f EXCEPT !.pc = "done", !.result = r]

\* customer_data['woo_id'] and ['email'] as process_woo_customer and
\* create_sale_order_in_odoo build them
CustomerData(f) ==
    IF f.kind = "customer"
    THEN [woo_id |-> f.data.id, email |-> f.data.email]
    ELSE [woo_id |-> f.data.customer_id, email |-> f.data.email]

\* faulty variant: the lookup by external id is left out
EnterGetOrCreateCustomer_EmailOnly(f) == [f EXCEPT !.pc = "cust_email"]

\* entry of get_or_create_customer: the external-id lookup is skipped for a
\* falsy woo_id
EnterGetOrCreateCustomer(f) ==
    IF Truthy(CustomerData(f).woo_id)
    THEN [f EXCEPT !.pc = "cust_xid"]
    ELSE [f EXCEPT !.pc = "cust_email"]

\* process_woo_order line 51 / the tail of create_sale_order_in_odoo
ReturnOrder(f) == Return(f, Bool(f.success_count > 0))

\* faulty variant: the function has no except clause
Caught_Escapes(f, r) == Return(f, "raised")
\* except Exception as e: log, return r
Caught(f, r) == Return([f EXCEPT !.clean = FALSE], r)

\* datetime.fromisoformat raises ValueError: the date has a 'T' and is not
\* an ISO date
ValueErrorIn(booking) ==
    /\ booking.booking_date \in {"2024-05-01T10:00:00", "Tuesday"}
    /\ booking.booking_date # "2024-05-01T10:00:00"

\* customer_data.get('billing', {}).get('phone', '') raises AttributeError:
\* billing is null
AttributeErrorIn(customer) ==
    "billing" \in DOMAIN customer /\ customer.billing = "None"

\* get_or_create_customer returned partner id p (0 = None) to its caller
\* faulty variant: the header is created whether or not a partner was resolved
AfterCustomer_NoAbort(f, p) ==
    IF f.kind = "customer"
    THEN Return([f EXCEPT !.partner_id = p], Bool(Truthy(p)))
    ELSE [f EXCEPT !.partner_id = p, !.pc = "header"]

AfterCustomer(f, p) ==
    IF f.kind = "customer"
    THEN Return([f EXCEPT !.partner_id = p], Bool(Truthy(p)))
    ELSE IF ~Truthy(p)
         THEN ReturnOrder([f EXCEPT !.partner_id = p])
         ELSE [f EXCEPT !.partner_id = p, !.pc = "header"]

\* faulty variant: the sale order is created only when every booking was synced
AfterBookings_AllRequired(f) ==
    IF f.success_count = Len(Bookings(f))
    THEN EnterGetOrCreateCustomer([f EXCEPT !.attempted = TRUE])
    ELSE ReturnOrder(f)

\* process_woo_order lines 46-51
AfterBookings(f) ==
    IF f.success_count > 0
    THEN EnterGetOrCreateCustomer([f EXCEPT !.attempted = TRUE])
    ELSE ReturnOrder(f)

\* sync_booking_to_odoo returned ok for booking idx: lines 43-44, next booking
AfterBooking(f, ok) ==
    LET g == [f EXCEPT !.success_count = IF ok THEN @ + 1 ELSE @]
    IN  IF g.idx < Len(Bookings(g))
        THEN [g EXCEPT !.pc = "sync_search", !.idx = @ + 1]
        ELSE IF g.kind = "scheduled"
             THEN Return([g EXCEPT !.idx = 0], "None")
             ELSE AfterBookings([g EXCEPT !.idx = 0])

\* the order-line loop moves to the next booking, or the function returns
NextLine(f) ==
    IF f.idx < Len(Bookings(f))
    THEN [f EXCEPT !.pc = "line_search", !.idx = @ + 1, !.product_id = 0]
    ELSE ReturnOrder([f EXCEPT !.product_id = 0])

\* faulty variant: any other status resets the order to draft
UpdateState_DraftOnOther(woo_status) ==
    IF woo_status = "completed" THEN "sale"
    ELSE IF woo_status = "cancelled" THEN "cancel"
    ELSE "draft"

\* faulty variant: the 'completed' branch is lost
UpdateState_NoSale(woo_status) ==
    IF woo_status = "cancelled" THEN "cancel" ELSE "keep"

\* update_existing_order lines 198-202: the state the update carries
\* ("keep": the update has no state key)
UpdateState(woo_status) ==
    IF woo_status = "completed" THEN "sale"
    ELSE IF woo_status = "cancelled" THEN "cancel"
    ELSE "keep"

\* faulty variant: a cancelled sale order is not confirmed again
WriteOrder_KeepCancel(rec, s) ==
    [rec EXCEPT !.noted = TRUE,
                !.state = IF s = "keep" \/ (@ = "cancel" /\ s = "sale") THEN @ ELSE s]

\* the ERP applies write({'note': ..., ['state': s]}) to a sale order
WriteOrder(rec, s) ==
    [rec EXCEPT !.noted = TRUE, !.state = IF s = "keep" THEN @ ELSE s]

\* create_product's record for a booking
ProductRecord(b) ==
    [x_woo_id     |-> ErpChar(ExternalProductId(b.order_id, b.product_id)),
     default_code |-> Sku(b.order_id, b.product_id),
     list_price   |-> b.total]

\* create_customer's record
PartnerRecord(c) ==
    [x_woo_id |-> ErpChar(PyInt(c.woo_id)), email |-> c.email]

\* faulty variant: the header is created without the storefront order id
OrderRecord_NoExternalId(f) ==
    [x_woo_order_id |-> PyStr(0), partner_id |-> f.partner_id,
     state |-> "draft", noted |-> FALSE]

\* create_sale_order_in_odoo's header
OrderRecord(f) ==
    [x_woo_order_id |-> ErpChar(PyInt(f.data.id)), partner_id |-> f.partner_id,
     state |-> "draft", noted |-> FALSE]

\* faulty variant: the line total is used as the unit price
LineRecord_TotalAsUnit(f, b) ==
    [order_id |-> f.order_id, product_id |-> f.product_id,
     product_uom_qty |-> b.quantity, price_unit |-> Divide(b.total, 1)]

\* create_sale_order_in_odoo's line for booking b
LineRecord(f, b) ==
    [order_id |-> f.order_id, product_id |-> f.product_id,
     product_uom_qty |-> b.quantity, price_unit |-> Divide(b.total, b.quantity)]
(* ------------------------------ actions ------------------------------- *)
\* app.py webhook_order: a thread is started on process_woo_order(order)
webhook_order(t, order) ==
    /\ ~Running(t)
    /\ deliveries < MaxDeliveries
    /\ deliveries' = deliveries + 1
    /\ overlap' = (overlap \/ \E u \in Tasks \ {t} : Running(u))
    /\ th' = [th EXCEPT ![t] =
                [IdleFrame EXCEPT !.pc = "exists_check", !.kind = "order", !.data = order]]
    /\ UNCHANGED <<uid, erp, failures, woo>>

\* app.py webhook_customer: a thread is started on process_woo_customer
webhook_customer(t, customer) ==
    /\ ~Running(t)
    /\ deliveries < MaxDeliveries
    /\ deliveries' = deliveries + 1
    /\ overlap' = (overlap \/ \E u \in Tasks \ {t} : Running(u))
    /\ LET f == [IdleFrame EXCEPT !.kind = "customer", !.data = customer,
                     !.mapped = Matching(partners, "x_woo_id", str(PyInt(customer.id))),
                     !.prev = IF th[t].kind = "customer"
                              THEN <<[data |-> th[t].data, partner_id |-> th[t].partner_id,
                                      clean |-> th[t].clean]>>
                              ELSE <<>>]
       IN  th' = [th EXCEPT ![t] =
                    IF AttributeErrorIn(customer)
                    THEN Caught(f, "False")
                    ELSE EnterGetOrCreateCustomer(f)]
    /\ UNCHANGED <<uid, erp, failures, woo>>

\* run_scheduler: the scheduler thread calls scheduled_sync
scheduled_sync(t) ==
    /\ ~Running(t)
    /\ deliveries < MaxDeliveries
    /\ deliveries' = deliveries + 1
    /\ overlap' = (overlap \/ \E u \in Tasks \ {t} : Running(u))
    /\ th' = [th EXCEPT ![t] =
                [IdleFrame EXCEPT !.pc = "fetch", !.kind = "scheduled",
                                  !.data = <<>>]]
    /\ UNCHANGED <<uid, erp, failures, woo>>

\* scheduled_sync line 223: get_recent_bookings. A request that failed gives
\* no orders; an order that extract_booking_data cannot read raises, which
\* the except clause of scheduled_sync catches
scheduled_fetch(t, response) ==
    /\ th[t].pc = "fetch"
    /\ th' = [th EXCEPT ![t] =
          IF ~response.ok
          THEN Return([@ EXCEPT !.lookup = "failed"], "None")
          ELSE IF \E i \in 1..Len(response.orders) : KeyErrorIn(response.orders[i])
          THEN Caught([@ EXCEPT !.lookup = "failed"], "None")
          ELSE LET g == [@ EXCEPT !.lookup = "found",
                                  !.bookings = get_recent_bookings(response.orders)]
               IN  IF Len(Bookings(g)) = 0
                   THEN Return(g, "None")
                   ELSE [g EXCEPT !.pc = "sync_search", !.idx = 1]]
    /\ UNCHANGED <<uid, erp, deliveries, failures, overlap, woo>>

\* faulty variant: the lookup filters on the int, which no stored text equals
ExistingOrderDomain_NoStr(data) == PyInt(data.id)

\* process_woo_order line 25: the domain of the existence lookup
ExistingOrderDomain(data) == str(PyInt(data.id))

\* faulty variant: an order without bookings is reported as synced
AfterLookupMiss_ReturnsTrue(f) ==
    LET g == [f EXCEPT !.bookings = extract_booking_data(f.data)]
    IN  IF Len(Bookings(g)) = 0
        THEN Return(g, "True")
        ELSE [g EXCEPT !.pc = "sync_search", !.idx = 1]

\* process_woo_order lines 33-41: no sale order was found
AfterLookupMiss(f) ==
    IF KeyErrorIn(f.data)
    THEN Caught(f, "False")
    ELSE LET g == [f EXCEPT !.bookings = extract_booking_data(f.data)]
         IN  IF Len(Bookings(g)) = 0
             THEN Return(g, "False")
             ELSE [g EXCEPT !.pc = "sync_search", !.idx = 1]

\* bookkeeping: how many products the ERP holds for each line item of an
\* order
SyncedBefore(data) ==
    IF KeyErrorIn(data) THEN <<>>
    ELSE [i \in 1..Len(LineItems(data)) |->
            Cardinality(Matching(products, "x_woo_id",
                ErpChar(ExternalProductId(data.id, LineItems(data)[i].product_id))))]

\* process_woo_order lines 23-38: the existence lookup and what follows it
\* up to the first booking
search_existing_order(t, maxFail) ==
    /\ th[t].pc = "exists_check"
    /\ \E o \in Outcomes(maxFail) :
       \E hit \in SearchOne(orders, "x_woo_order_id", ExistingOrderDomain(th[t].data)) :
         LET existing_order == Found(o, hit)
             f == Failed([th[t] EXCEPT
                     !.existed = \E i \in 1..Len(orders) :
                                   orders[i].x_woo_order_id = ErpChar(PyInt(th[t].data.id)),
                     !.synced = SyncedBefore(th[t].data),
                     !.lookup = IF o # "ok" THEN "failed"
                                ELSE IF Truthy(hit) THEN "found" ELSE "missed"], o)
             g == Missed(f, o, Cardinality(Matching(orders, "x_woo_order_id",
                                   ExistingOrderDomain(th[t].data))), 0)
         IN  /\ Remote(o)
             /\ th' = [th EXCEPT ![t] =
                   IF Truthy(existing_order)
                   THEN [g EXCEPT !.pc = "update", !.order_id = existing_order]
                   ELSE AfterLookupMiss(g)]
    /\ UNCHANGED <<erp, deliveries, overlap, woo>>

\* update_existing_order: one write on the sale order found
update_existing_order(t, maxFail) ==
    /\ th[t].pc = "update"
    /\ \E o \in Outcomes(maxFail) :
         LET f == Failed(Wrote(th[t], "sale.order"), o)
         IN  /\ Remote(o)
             /\ orders' = IF o = "ok"
                          THEN [orders EXCEPT ![f.order_id] =
                                  WriteOrder(@, UpdateState(f.data.status))]
                          ELSE orders
             /\ th' = [th EXCEPT ![t] = Return(f, Bool(o = "ok"))]
    /\ UNCHANGED <<partners, products, lines, deliveries, overlap, woo>>

\* faulty variant: "create or update": the product found is overwritten with the
\* booking's data
ProductsAfterLookup_Update(tbl, b, existing) ==
    IF Truthy(existing) THEN [tbl EXCEPT ![existing] = ProductRecord(b)] ELSE tbl

\* get_or_create_product lines 195-198: what the lookup leaves of the
\* product table when it found `existing` (0: nothing found); the record is
\* returned as it is, nothing is written
ProductsAfterLookup(tbl, b, existing) == tbl

\* sync_booking_to_odoo -> get_or_create_product lines 195-198: the lookup
get_or_create_product(t, maxFail) ==
    /\ th[t].pc = "sync_search"
    /\ LET b == Bookings(th[t])[th[t].idx]
       IN  IF ValueErrorIn(b)
           THEN /\ th' = [th EXCEPT ![t] = AfterBooking([@ EXCEPT !.clean = FALSE], FALSE)]
                /\ UNCHANGED <<uid, failures, products>>
           ELSE
           \E o \in Outcomes(maxFail) :
           \E hit \in SearchOne(products, "x_woo_id",
                                str(ExternalProductId(b.order_id, b.product_id))) :
             LET existing == Found(o, hit)
                 f == Missed(Failed(th[t], o), o,
                             Cardinality(Matching(products, "x_woo_id",
                                 str(ExternalProductId(b.order_id, b.product_id)))), 0)
             IN  /\ Remote(o)
                 /\ products' = ProductsAfterLookup(products, b, existing)
                 /\ th' = [th EXCEPT ![t] =
                       IF Truthy(existing)
                       THEN AfterBooking(f, TRUE)
                       ELSE [f EXCEPT !.pc = "sync_create"]]
    /\ UNCHANGED <<partners, orders, lines, deliveries, overlap, woo>>

\* get_or_create_product line 201 -> create_product, and the rest of
\* sync_booking_to_odoo
create_product(t, maxFail) ==
    /\ th[t].pc = "sync_create"
    /\ LET b == Bookings(th[t])[th[t].idx]
       IN  \E o \in Outcomes(maxFail) :
             LET f == Failed(Created(th[t], "product.product"), o)
             IN  /\ Remote(o)
                 /\ products' = IF o = "ok" THEN Append(products, ProductRecord(b))
                                ELSE products
                 /\ th' = [th EXCEPT ![t] = AfterBooking(f, o = "ok")]
    /\ UNCHANGED <<partners, orders, lines, deliveries, overlap, woo>>

\* get_or_create_customer lines 170-173: lookup by external id
customer_by_external_id(t, maxFail) ==
    /\ th[t].pc = "cust_xid"
    /\ \E o \in Outcomes(maxFail) :
       \E hit \in SearchOne(partners, "x_woo_id", str(PyInt(CustomerData(th[t]).woo_id))) :
         LET existing == Found(o, hit)
             f == Missed(Failed(th[t], o), o,
                         Cardinality(Matching(partners, "x_woo_id",
                                              str(PyInt(CustomerData(th[t]).woo_id)))),
                         Cardinality(Matching(partners, "email",
                                              CustomerData(th[t]).email)))
         IN  /\ Remote(o)
             /\ th' = [th EXCEPT ![t] =
                   IF Truthy(existing)
                   THEN AfterCustomer(f, existing)
                   ELSE [f EXCEPT !.pc = "cust_email"]]
    /\ UNCHANGED <<erp, deliveries, overlap, woo>>

\* get_or_create_customer lines 176-182: lookup by email
customer_by_email(t, maxFail) ==
    /\ th[t].pc = "cust_email"
    /\ \E o \in Outcomes(maxFail) :
       \E hit \in SearchOne(partners, "email", CustomerData(th[t]).email) :
         LET existing == Found(o, hit)
             f == Failed(th[t], o)
         IN  /\ Remote(o)
             /\ th' = [th EXCEPT ![t] =
                   IF Truthy(existing)
                   THEN IF Truthy(CustomerData(f).woo_id)
                        THEN [f EXCEPT !.pc = "cust_backfill", !.partner_id = existing]
                        ELSE AfterCustomer(f, existing)
                   ELSE [f EXCEPT !.pc = "cust_create"]]
    /\ UNCHANGED <<erp, deliveries, overlap, woo>>

\* get_or_create_customer lines 184-188: the external id is written on the
\* partner matched by email; the result of the write is not looked at
customer_backfill(t, maxFail) ==
    /\ th[t].pc = "cust_backfill"
    /\ \E o \in Outcomes(maxFail) :
         LET f == Failed(Wrote(th[t], "res.partner"), o)
         IN  /\ Remote(o)
             /\ partners' = IF o = "ok"
                            THEN [partners EXCEPT ![f.partner_id].x_woo_id =
                                    ErpChar(PyInt(CustomerData(f).woo_id))]
                            ELSE partners
             /\ th' = [th EXCEPT ![t] = AfterCustomer(f, f.partner_id)]
    /\ UNCHANGED <<products, orders, lines, deliveries, overlap, woo>>

\* get_or_create_customer line 191 -> create_customer
create_customer(t, maxFail) ==
    /\ th[t].pc = "cust_create"
    /\ \E o \in Outcomes(maxFail) :
         LET f == Failed(Created(th[t], "res.partner"), o)
         IN  /\ Remote(o)
             /\ partners' = IF o = "ok"
                            THEN Append(partners, PartnerRecord(CustomerData(f)))
                            ELSE partners
             /\ th' = [th EXCEPT ![t] =
                   AfterCustomer(f, IF o = "ok" THEN Len(partners) + 1 ELSE 0)]
    /\ UNCHANGED <<products, orders, lines, deliveries, overlap, woo>>

\* create_sale_order_in_odoo lines 146-160: the header
create_sale_order_header(t, maxFail) ==
    /\ th[t].pc = "header"
    /\ \E o \in Outcomes(maxFail) :
         LET f == Failed(Created(th[t], "sale.order"), o)
         IN  /\ Remote(o)
             /\ orders' = IF o = "ok" THEN Append(orders, OrderRecord(f)) ELSE orders
             /\ th' = [th EXCEPT ![t] =
                   IF o = "ok"
                   THEN [f EXCEPT !.order_id = Len(orders) + 1, !.pc = "line_search",
                                  !.idx = 1]
                   ELSE ReturnOrder(f)]
    /\ UNCHANGED <<partners, products, lines, deliveries, overlap, woo>>

\* create_sale_order_in_odoo lines 163-174 with product found for booking b:
\* line_data is built, and total / quantity raises for quantity 0, which
\* the function's except clause turns into `return None`
BuildLine(f, b, product) ==
    IF b.quantity = 0
    THEN ReturnOrder([f EXCEPT !.zero_div = TRUE])
    ELSE [f EXCEPT !.pc = "line_create", !.product_id = product]

\* create_sale_order_in_odoo lines 165-174: the product of the booking is
\* looked up
order_line_product(t, maxFail) ==
    /\ th[t].pc = "line_search"
    /\ LET b == Bookings(th[t])[th[t].idx]
       IN  \E o \in Outcomes(maxFail) :
           \E hit \in SearchOne(products, "x_woo_id",
                                ExternalProductId(b.order_id, b.product_id)) :
             LET product == Found(o, hit)
                 f == Failed(th[t], o)
             IN  /\ Remote(o)
                 /\ th' = [th EXCEPT ![t] =
                       IF Truthy(product) THEN BuildLine(f, b, product) ELSE NextLine(f)]
    /\ UNCHANGED <<erp, deliveries, overlap, woo>>

\* create_sale_order_in_odoo lines 176-178: the order line
create_order_line(t, maxFail) ==
    /\ th[t].pc = "line_create"
    /\ LET b == Bookings(th[t])[th[t].idx]
       IN  \E o \in Outcomes(maxFail) :
             LET f == Failed(Created(th[t], "sale.order.line"), o)
             IN  /\ Remote(o)
                 /\ lines' = IF o = "ok" THEN Append(lines, LineRecord(f, b)) ELSE lines
                 /\ th' = [th EXCEPT ![t] = NextLine(f)]
    /\ UNCHANGED <<partners, products, orders, deliveries, overlap, woo>>

\* one step of a running task
Step(t, maxFail) ==
    \/ search_existing_order(t, maxFail)
    \/ update_existing_order(t, maxFail)
    \/ get_or_create_product(t, maxFail)
    \/ create_product(t, maxFail)
    \/ customer_by_external_id(t, maxFail)
    \/ customer_by_email(t, maxFail)
    \/ customer_backfill(t, maxFail)
    \/ create_customer(t, maxFail)
    \/ create_sale_order_header(t, maxFail)
    \/ order_line_product(t, maxFail)
    \/ create_order_line(t, maxFail)

\* a caller passes an order to extract_booking_data
extract_call(t, order) ==
    /\ ~Running(t)
    /\ deliveries < MaxDeliveries
    /\ deliveries' = deliveries + 1
    /\ overlap' = (overlap \/ \E u \in Tasks \ {t} : Running(u))
    /\ th' = [th EXCEPT ![t] =
                [IdleFrame EXCEPT !.pc = "extract", !.kind = "extract", !.data = order]]
    /\ UNCHANGED <<uid, erp, failures, woo>>

\* extract_booking_data returns its bookings
extract_return(t) ==
    /\ th[t].pc = "extract"
    /\ th' = [th EXCEPT ![t] =
                [@ EXCEPT !.pc = "done",
                          !.bookings = extract_booking_data(th[t].data)]]
    /\ UNCHANGED <<uid, erp, deliveries, failures, overlap, woo>>

(* ------------------------------ scheduler ----------------------------- *)
\* config.py: DEBUG = os.getenv('DEBUG', 'True').lower() == 'true'
Debug == TRUE
\* __main__ ends in app.run(debug=Config.DEBUG). With debug on, the
\* development server runs under its reloader: the process that was started
\* stays as the watcher and runs the script again in a child that serves the
\* requests. Both execute __main__, so both start a scheduler thread.
Processes == IF Debug THEN {"watcher", "server"} ELSE {"server"}
\* the slot of th that holds the scheduler thread of a process; slot t2 holds
\* the webhook threads of the server when no watcher job is in it
SchedulerThread(p) == IF p = "server" THEN "t1" ELSE "t2"
\* run_scheduler registers two jobs on its loop: scheduled_sync and
\* cleanup_logs. Nothing registers or calls sync_odoo_to_woo.

\* run_scheduler's loop: when the thread is not inside a job, run_pending
\* calls the next due job, here cleanup_logs (scheduled_sync above is the
\* other), and returns to the loop when the job has returned
cleanup_logs(t) ==
    /\ ~Running(t)
    /\ deliveries < MaxDeliveries
    /\ deliveries' = deliveries + 1
    /\ overlap' = (overlap \/ \E u \in Tasks \ {t} : Running(u))
    /\ th' = [th EXCEPT ![t] =
                [IdleFrame EXCEPT !.pc = "cleanup", !.kind = "cleanup"]]
    /\ UNCHANGED <<uid, erp, failures, woo>>

\* cleanup_logs writes its log line and returns
cleanup_return(t) ==
    /\ th[t].pc = "cleanup"
    /\ th' = [th EXCEPT ![t] = Return(@, "None")]
    /\ UNCHANGED <<uid, erp, deliveries, failures, overlap, woo>>

(* ---------------------- SyncService, reverse sync --------------------- *)
\* What can happen to one storefront request: _make_request answers, or it
\* returns None (status other than 200/201, or a connection error)
StoreOutcomes(maxFail) ==
    {"ok"} \cup (IF failures < maxFail THEN {"call_fail"} ELSE {})

\* Python truthiness of a value read from the ERP
TruthyValue(x) ==
    CASE x.ty = "bool" -> x.v
      [] x.ty = "str"  -> x.v # <<>>
      [] x.ty = "int"  -> x.v # 0
      [] OTHER         -> FALSE
\* sync_product_to_woo line 272: woo_id and woo_id != 'False'
HasStoreId(woo_id) ==
    TruthyValue(woo_id) /\ woo_id # PyStr(<<"F", "a", "l", "s", "e">>)

\* faulty variant: the product is updated whatever get_product answered
ExistingProduct_Unchecked(o, id) == TRUE

\* sync_product_to_woo lines 274-275: get_product answered with a product
ExistingProduct(o, id) == o = "ok" /\ StoreHas(id)

\* sync_product_to_woo line 276-281: update_data
UpdateData(odoo_product) ==
    StoreProduct(odoo_product.default_code.v, odoo_product.list_price)

\* sync_odoo_to_woo lines 256-258: the result of one product is counted and
\* the loop goes on
AfterProduct(f, ok) ==
    LET g == [f EXCEPT !.pushed = Append(@, ok),
                       !.sync_count = IF ok THEN @ + 1 ELSE @]
    IN  IF f.idx < Len(f.odoo_products)
        THEN [g EXCEPT !.pc = "rev_product", !.idx = @ + 1]
        ELSE Return(g, "None")

\* sync_odoo_to_woo is called
sync_odoo_to_woo(t) ==
    /\ ~Running(t)
    /\ deliveries < MaxDeliveries
    /\ deliveries' = deliveries + 1
    /\ overlap' = (overlap \/ \E u \in Tasks \ {t} : Running(u))
    /\ th' = [th EXCEPT ![t] =
                [IdleFrame EXCEPT !.pc = "rev_search", !.kind = "reverse"]]
    /\ UNCHANGED <<uid, erp, failures, woo>>

\* sync_odoo_to_woo lines 246-254: the service products written in the last
\* 24 hours, which is some tail of the table; [] when the search fails
recent_products(t, maxFail) ==
    /\ th[t].pc = "rev_search"
    /\ \E o \in Outcomes(maxFail) :
       \E k \in 0..Len(products) :
         LET found == IF o = "ok" THEN SubSeq(products, k + 1, Len(products)) ELSE <<>>
             f == [Failed(th[t], o) EXCEPT !.odoo_products = found]
         IN  /\ Remote(o)
             /\ th' = [th EXCEPT ![t] =
                   IF found = <<>> THEN Return(f, "None")
                   ELSE [f EXCEPT !.pc = "rev_product", !.idx = 1]]
    /\ UNCHANGED <<erp, deliveries, overlap, woo>>

\* sync_product_to_woo lines 268-275: the storefront id of the product is
\* read, converted and looked up on the storefront
sync_product_to_woo(t, maxFail) ==
    /\ th[t].pc = "rev_product"
    /\ LET f == th[t]
           woo_id == f.odoo_products[f.idx].x_woo_id
       IN  IF ~HasStoreId(woo_id)
           THEN /\ th' = [th EXCEPT ![t] = AfterProduct(f, FALSE)]
                /\ UNCHANGED failures
           ELSE IF ~IsIntLiteral(woo_id.v)
           THEN \* int(woo_id) raises ValueError, caught on lines 290-292
                /\ th' = [th EXCEPT ![t] = AfterProduct(f, FALSE)]
                /\ UNCHANGED failures
           ELSE \E o \in StoreOutcomes(maxFail) :
                  LET id == ParseInt(woo_id.v)
                      g == [Failed(f, o) EXCEPT
                              !.store_reads = Append(@, [i |-> f.idx, id |-> id])]
                  IN  /\ failures' = IF o = "ok" THEN failures ELSE failures + 1
                      /\ th' = [th EXCEPT ![t] =
                            IF ExistingProduct(o, id)
                            THEN [g EXCEPT !.pc = "rev_update"]
                            ELSE AfterProduct(g, FALSE)]
    /\ UNCHANGED <<uid, erp, deliveries, overlap, woo>>

\* sync_product_to_woo lines 276-288: update_product on the storefront; a
\* PUT on an id the storefront does not have is answered 404
update_product(t, maxFail) ==
    /\ th[t].pc = "rev_update"
    /\ \E o \in StoreOutcomes(maxFail) :
         LET f == th[t]
             odoo_product == f.odoo_products[f.idx]
             id == ParseInt(odoo_product.x_woo_id.v)
             result == o = "ok" /\ StoreHas(id)
             g == [Failed(f, o) EXCEPT
                     !.store_writes = Append(@, [i |-> f.idx, id |-> id])]
         IN  /\ failures' = IF o = "ok" THEN failures ELSE failures + 1
             /\ woo' = IF result THEN [woo EXCEPT ![id] = UpdateData(odoo_product)]
                       ELSE woo
             /\ th' = [th EXCEPT ![t] = AfterProduct(g, result)]
    /\ UNCHANGED <<uid, erp, deliveries, overlap>>

ReverseStep(t, maxFail) ==
    \/ recent_products(t, maxFail)
    \/ sync_product_to_woo(t, maxFail)
    \/ update_product(t, maxFail)

(* ------------------- OdooClient, one step per access ------------------- *)
\* The operations of the client as its concurrent callers see them: the test
\* of self.uid, authenticate, and each execute_kw are steps of their own.

\* the session id the ERP accepts
ValidUid(u) == u = 1
\* `if not self.uid`
NeedsAuth_NoneOnly(u) == u = 0
NeedsAuth(u) == u <= 0

\* faulty variant: every except clause returns None
OnError_None(op) == PyNone
\* the except clauses of create_record, update_record, search_records
OnError(op) ==
    CASE op = "create" -> PyNone
      [] op = "update" -> PyBool(FALSE)
      [] op = "search" -> PyList(<<>>)

Raise(f) == [f EXCEPT !.pc = "done", !.ret = OnError(f.data.op), !.clean = FALSE]

\* a caller enters create_record, update_record, search_records, or (health
\* check, start-up) authenticate
client_call(t, call) ==
    /\ ~Running(t)
    /\ deliveries < MaxDeliveries
    /\ deliveries' = deliveries + 1
    /\ overlap' = (overlap \/ \E u \in Tasks \ {t} : Running(u))
    /\ th' = [th EXCEPT ![t] =
                [IdleFrame EXCEPT !.pc = IF call.op = "authenticate" THEN "c_auth"
                                         ELSE "c_check",
                                  !.kind = "client", !.data = call,
                                  !.after_failed = th[t].auth = "failed"]]
    /\ UNCHANGED <<uid, erp, failures, woo>>

\* if not self.uid:
client_check(t) ==
    /\ th[t].pc = "c_check"
    /\ th' = [th EXCEPT ![t] = [@ EXCEPT !.uid_seen = uid,
                                         !.pc = IF NeedsAuth(uid) THEN "c_auth"
                                                ELSE "c_call"]]
    /\ UNCHANGED <<uid, erp, deliveries, failures, overlap, woo>>

\* authenticate: the ERP answers a session id or False, or the call raises
client_authenticate(t, maxFail) ==
    /\ th[t].pc = "c_auth"
    /\ \E o \in {"ok"} \cup (IF failures < maxFail THEN {"denied", "raised"} ELSE {}) :
         LET f == [th[t] EXCEPT !.auths = @ + 1,
                                !.auth = IF o = "ok" THEN "ok" ELSE "failed"]
         IN  /\ uid' = CASE o = "ok" -> 1
                         [] o = "denied" -> -1
                         [] o = "raised" -> uid
             /\ failures' = IF o = "ok" THEN failures ELSE failures + 1
             /\ th' = [th EXCEPT ![t] =
                   IF f.data.op = "authenticate"
                   THEN [f EXCEPT !.pc = "done", !.ret = PyBool(o = "ok")]
                   ELSE [f EXCEPT !.pc = "c_call"]]
    /\ UNCHANGED <<erp, deliveries, overlap, woo>>

\* what the ERP does with a create / write / search that it accepted
Execute(f, hit) ==
    CASE f.data.op = "create" ->
           /\ partners' = Append(partners, PartnerRecord(f.data.vals))
           /\ th' = [th EXCEPT ![f.data.t] =
                 [f EXCEPT !.pc = "done", !.ret = PyInt(Len(partners) + 1)]]
      [] f.data.op = "update" ->
           IF f.data.id \in 1..Len(partners)
           THEN /\ partners' = [partners EXCEPT ![f.data.id].x_woo_id =
                                    ErpChar(PyInt(f.data.vals.woo_id))]
                /\ th' = [th EXCEPT ![f.data.t] =
                      [f EXCEPT !.pc = "done", !.ret = PyBool(TRUE)]]
           ELSE /\ partners' = partners
                /\ th' = [th EXCEPT ![f.data.t] = Raise(f)]
      [] f.data.op = "search" ->
           /\ partners' = partners
           /\ th' = [th EXCEPT ![f.data.t] =
                 IF Truthy(hit)
                 THEN [f EXCEPT !.pc = "c_read", !.ids = <<hit>>]
                 ELSE [f EXCEPT !.pc = "done", !.ret = PyList(<<>>),
                                !.lookup = "missed"]]

\* execute_kw(self.db, self.uid, ...) of create, write or search: None cannot
\* be sent, any other value is sent and the ERP rejects what is no session id
client_execute(t, maxFail) ==
    /\ th[t].pc = "c_call"
    /\ IF uid = 0
       THEN /\ th' = [th EXCEPT ![t] = Raise(@)]
            /\ UNCHANGED <<partners, failures>>
       ELSE LET f == [th[t] EXCEPT !.sent = Append(@, uid)]
            IN  IF ~ValidUid(uid)
                THEN /\ th' = [th EXCEPT ![t] = Raise(f)]
                     /\ UNCHANGED <<partners, failures>>
                ELSE \/ /\ failures < maxFail
                        /\ failures' = failures + 1
                        /\ th' = [th EXCEPT ![t] = Raise(f)]
                        /\ UNCHANGED partners
                     \/ /\ UNCHANGED failures
                        /\ \E hit \in (IF f.data.op = "search"
                                       THEN SearchOne(partners, "email", f.data.email)
                                       ELSE {0}) :
                             Execute(f, hit)
    /\ UNCHANGED <<uid, products, orders, lines, deliveries, overlap, woo>>

\* search_records: execute_kw(self.db, self.uid, ..., 'read', [record_ids])
client_read(t, maxFail) ==
    /\ th[t].pc = "c_read"
    /\ IF uid = 0
       THEN /\ th' = [th EXCEPT ![t] = Raise(@)]
            /\ UNCHANGED failures
       ELSE LET f == [th[t] EXCEPT !.sent = Append(@, uid)]
            IN  IF ~ValidUid(uid)
                THEN /\ th' = [th EXCEPT ![t] = Raise(f)]
                     /\ UNCHANGED failures
                ELSE \/ /\ failures < maxFail
                        /\ failures' = failures + 1
                        /\ th' = [th EXCEPT ![t] = Raise(f)]
                     \/ /\ UNCHANGED failures
                        /\ th' = [th EXCEPT ![t] =
                              [f EXCEPT !.pc = "done", !.ret = PyList(f.ids),
                                        !.lookup = "found"]]
    /\ UNCHANGED <<uid, erp, deliveries, overlap, woo>>

ClientStep(t, maxFail) ==
    \/ client_check(t)
    \/ client_authenticate(t, maxFail)
    \/ client_execute(t, maxFail)
    \/ client_read(t, maxFail)

(* --------------------------- specifications --------------------------- *)
\* line items: product 7 booked twice at different prices, product 9 with a
\* price that does not divide evenly
ItemLists ==
    {<<>>,
     <<LineItem(7, 1, 50)>>,
     <<LineItem(7, 1, 50), LineItem(9, 2, 75)>>,
     <<LineItem(7, 1, 50), LineItem(7, 2, 80)>>}
OrdersDelivered ==
    {Order(id, st, 3, "a@x", items) :
        id \in {42, 555}, st \in {"completed", "processing"}, items \in ItemLists}

Init ==
    /\ uid = 0
    /\ partners = <<>>
    /\ products = <<>>
    /\ orders = <<>>
    /\ lines = <<>>
    /\ th = [t \in Tasks |-> IdleFrame]
    /\ deliveries = 0
    /\ failures = 0
    /\ overlap = FALSE
    /\ woo = Catalog

\* webhooks delivered one after the other: the next one arrives when the
\* task of the previous one has returned
Next ==
    \/ \E order \in OrdersDelivered : webhook_order("t1", order)
    \/ Step("t1", MaxFailures)

Spec == Init /\ [][Next]_vars
\* --- status updates: one order delivered again and again with every
\* storefront status, by two customers sharing an email
OrdersWithStatus ==
    {Order(555, st, c, "a@x", <<LineItem(7, 1, 50)>>) : st \in Statuses, c \in {3, 4}}

NextStatus ==
    \/ \E order \in OrdersWithStatus : webhook_order("t1", order)
    \/ Step("t1", MaxFailures)

SpecStatus == Init /\ [][NextStatus]_vars

\* --- concurrent delivery: the storefront delivers the webhook of one order
\* twice, and the two threads interleave at every remote call; no call fails
OrdersRetried == {Order(555, "completed", 3, "a@x", <<LineItem(7, 1, 50)>>)}

NextConc ==
    \/ \E t \in Tasks : \E order \in OrdersRetried : webhook_order(t, order)
    \/ \E t \in Tasks : Step(t, 0)

SpecConc == Init /\ [][NextConc]_vars

\* --- customer upserts, by customer webhooks and by new orders, one after
\* the other; customer id 0 is the storefront's guest customer
CustomerIds == {0, 1, 2}
CustomersDelivered == {Customer(c, e) : c \in CustomerIds, e \in Emails}
OrdersOfCustomers ==
    {Order(id, "processing", c, e, <<LineItem(7, 1, 50)>>) :
        id \in {42}, c \in CustomerIds, e \in Emails}

NextCustomer ==
    \/ \E customer \in CustomersDelivered : webhook_customer("t1", customer)
    \/ \E order \in OrdersOfCustomers : webhook_order("t1", order)
    \/ Step("t1", MaxFailures)

SpecCustomer == Init /\ [][NextCustomer]_vars

\* --- order lines: quantities above, at and below zero, no call fails
QuantityLists ==
    {<<LineItem(7, 1, 50)>>,
     <<LineItem(7, 2, 75), LineItem(9, 3, 50)>>,
     <<LineItem(7, 2, 50), LineItem(7, 1, 80)>>,
     <<LineItem(7, 0, 50), LineItem(9, 1, 50)>>,
     <<LineItem(7, 1, 50), LineItem(9, 0, 50)>>,
     <<LineItem(7, -1, 50), LineItem(9, 2, 50)>>,
     <<LineItem(9, -2, 50)>>}
OrdersWithQuantities ==
    {Order(id, "completed", c, "a@x", items) :
        id \in {42, 555}, c \in {3, 4}, items \in QuantityLists}

NextQty ==
    \/ \E order \in OrdersWithQuantities : webhook_order("t1", order)
    \/ Step("t1", 0)

SpecQty == Init /\ [][NextQty]_vars
\* --- the client under its concurrent callers: webhook threads and the
\* scheduler through create, update and search, the health check through
\* authenticate
ClientCalls(t) ==
    {[op |-> "create", t |-> t, vals |-> [woo_id |-> 1, email |-> "a@x"]],
     [op |-> "update", t |-> t, id |-> 1, vals |-> [woo_id |-> 2]],
     [op |-> "search", t |-> t, email |-> "a@x"],
     [op |-> "authenticate", t |-> t]}

NextClient ==
    \E t \in Tasks :
        \/ \E call \in ClientCalls(t) : client_call(t, call)
        \/ ClientStep(t, MaxFailures)

SpecClient == Init /\ [][NextClient]_vars

\* --- payloads that lack fields, dates that do not parse, a storefront that
\* fails: what the webhook threads and the scheduler thread see
OrdersMalformed ==
    {Order(42, "completed", 3, "a@x", <<LineItem(7, 1, 50)>>),
     [id |-> 42, status |-> "completed", customer_id |-> 3, email |-> "a@x"],
     Order(42, "completed", 3, "a@x", <<[product_id |-> 7, quantity |-> 1]>>),
     [id |-> 42, status |-> "completed", customer_id |-> 3,
      line_items |-> <<LineItem(7, 1, 50)>>],
     Order(42, "completed", 3, "a@x",
           <<[product_id |-> 7, quantity |-> 1, total |-> 50,
              meta_data |-> <<[key |-> <<"F", "r", "o", "m">>,
                               value |-> "Tuesday"]>>],
             LineItem(9, 2, 75)>>)}

CustomersMalformed ==
    {Customer(1, "a@x"), [id |-> 1, email |-> "a@x", billing |-> "None"]}

StoreResponses ==
    {[ok |-> FALSE, orders |-> <<>>],
     [ok |-> TRUE, orders |-> <<>>],
     [ok |-> TRUE, orders |-> <<Order(555, "completed", 3, "a@x", <<LineItem(7, 1, 50)>>)>>],
     [ok |-> TRUE, orders |->
        <<Order(555, "completed", 3, "a@x",
                <<[product_id |-> 7, quantity |-> 1, total |-> 50,
              meta_data |-> <<[key |-> <<"F", "r", "o", "m">>,
                               value |-> "Tuesday"]>>],
                  LineItem(9, 2, 75)>>)>>],
     [ok |-> TRUE, orders |->
        <<Order(555, "completed", 3, "a@x", <<LineItem(7, 1, 50)>>),
          Order(556, "completed", 3, "a@x", <<[product_id |-> 7, quantity |-> 1]>>)>>]}

StepFaults(t) ==
    \/ \E response \in StoreResponses : scheduled_fetch(t, response)
    \/ Step(t, MaxFailures)

NextFaults ==
    \/ \E order \in OrdersMalformed : webhook_order("t1", order)
    \/ \E customer \in CustomersMalformed : webhook_customer("t1", customer)
    \/ scheduled_sync("t1")
    \/ StepFaults("t1")

\* a started thread keeps running
SpecFaults == Init /\ [][NextFaults]_vars /\ WF_vars(StepFaults("t1"))

\* --- extract_booking_data on orders whose line items carry metadata
MetaEntries ==
    {[key |-> <<"B", "o", "o", "k", "i", "n", "g", " ", "F", "r", "o", "m">>, value |-> "2024-05-01T10:00:00"],
     [key |-> <<"b", "o", "o", "k", "i", "n", "g", "_", "d", "a", "t", "e">>, value |-> "2024-06-02T09:00:00"],
     [key |-> <<"P", "e", "r", "s", "o", "n", "s">>, value |-> "3"],
     [key |-> <<"P", "e", "r", "s", "o", "n">>, value |-> "two"],
     [key |-> <<"T", "o">>, value |-> "2024-05-01T12:00:00"],
     [key |-> <<"D", "u", "r", "a", "t", "i", "o", "n">>, value |-> "2h"],
     [value |-> "x"]}

MetaLists ==
    {<<>>} \cup {<<a>> : a \in MetaEntries} \cup {<<a, b>> : a, b \in MetaEntries}
      \cup {<<[key |-> <<"B", "o", "o", "k", "i", "n", "g", " ", "F", "r", "o", "m">>, value |-> "2024-05-01T10:00:00"],
              [key |-> <<"P", "e", "r", "s", "o", "n", "s">>, value |-> "12"],
              [key |-> <<"F", "R", "O", "M">>, value |-> "2024-06-02T09:00:00"]>>}

ItemWithMeta(p, md) == [product_id |-> p, quantity |-> 1, total |-> 50, meta_data |-> md]

OrdersWithMeta ==
    {[id |-> 100, status |-> "completed", customer_id |-> 3, email |-> "a@x",
      date_created |-> d, line_items |-> items] :
        d \in {"2024-04-30T08:00:00", "2024-04-01T00:00:00"},
        items \in {<<>>, <<LineItem(7, 1, 50)>>, <<LineItem(7, 1, 50), LineItem(9, 2, 75)>>}
                   \cup {<<ItemWithMeta(7, md)>> : md \in MetaLists}
                   \cup {<<ItemWithMeta(7, md), LineItem(9, 2, 75)>> :
                           md \in {<<a>> : a \in MetaEntries}}
                   \cup {<<LineItem(9, 2, 75), ItemWithMeta(7, md)>> :
                           md \in {<<a>> : a \in MetaEntries}}}

NextExtract ==
    \/ \E order \in OrdersWithMeta : extract_call("t1", order)
    \/ extract_return("t1")

SpecExtract == Init /\ [][NextExtract]_vars

\* --- forward and reverse sync, one call after the other: order 100 is
\* delivered with one or two bookings; the ERP may hold products entered by
\* hand, and the storefront may or may not have a product 1007
OrdersBooked ==
    {Order(100, "completed", c, "a@x", items) :
        c \in {3, 4},
        items \in {<<LineItem(7, 1, 50)>>, <<LineItem(7, 1, 50), LineItem(9, 2, 75)>>}}
ErpProduct(woo_id, sku, price) ==
    [x_woo_id |-> woo_id, default_code |-> PyStr(sku), list_price |-> price]
\* the ERP reads an empty text column as False
ProductsByHand ==
    {<<>>,
     <<ErpProduct(PyBool(FALSE), <<"Y", "O", "G", "A">>, 30),
       ErpProduct(PyStr(<<"7">>), <<"C", "L", "A", "S", "S">>, 60)>>,
     <<ErpProduct(PyStr(<<"F", "a", "l", "s", "e">>), <<"G", "Y", "M">>, 10),
       ErpProduct(PyStr(<<"n", "/", "a">>), <<"S", "P", "A">>, 40)>>}

InitReverse ==
    /\ uid = 0
    /\ partners = <<>>
    /\ products \in ProductsByHand
    /\ orders = <<>>
    /\ lines = <<>>
    /\ th = [t \in Tasks |-> IdleFrame]
    /\ deliveries = 0
    /\ failures = 0
    /\ overlap = FALSE
    /\ woo \in {Catalog, CatalogWithBoth}

NextReverse ==
    \/ \E order \in OrdersBooked : webhook_order("t1", order)
    \/ Step("t1", MaxFailures)
    \/ sync_odoo_to_woo("t1")
    \/ ReverseStep("t1", MaxFailures)

SpecReverse == InitReverse /\ [][NextReverse]_vars

\* --- the scheduler threads and the webhook threads of the running
\* application; no call fails
BookingsFetched ==
    {[ok |-> TRUE, orders |-> <<>>],
     [ok |-> TRUE, orders |-> <<Order(555, "completed", 3, "a@x", <<LineItem(7, 1, 50)>>)>>]}

OrdersByWebhook ==
    {Order(id, "completed", c, "a@x", <<LineItem(7, 1, 50)>>) :
        id \in {42, 555}, c \in {3, 4}}

NextScheduler ==
    \/ \E p \in Processes : scheduled_sync(SchedulerThread(p))
    \/ \E p \in Processes : cleanup_logs(SchedulerThread(p))
    \/ \E t \in Tasks : cleanup_return(t)
    \/ \E t \in Tasks : \E response \in BookingsFetched : scheduled_fetch(t, response)
    \/ \E order \in OrdersByWebhook : webhook_order("t2", order)
    \/ \E t \in Tasks : Step(t, 0)

SpecScheduler == Init /\ [][NextScheduler]_vars

\* --- lookups that fail: orders 42 and 555 of one customer who changes
\* the email, delivered by webhook one after the other, and the scheduled
\* sync, which creates the product of order 555 without its sale order
OrdersOfOneCustomer ==
    {Order(id, "completed", 3, e, <<LineItem(7, 1, 50)>>) :
        id \in {42, 555}, e \in Emails}

NextRetry ==
    \/ \E order \in OrdersOfOneCustomer : webhook_order("t1", order)
    \/ scheduled_sync("t1")
    \/ \E response \in BookingsFetched : scheduled_fetch("t1", response)
    \/ Step("t1", MaxFailures)

SpecRetry == Init /\ [][NextRetry]_vars

(* ----------------------------- properties ----------------------------- *)
OrderTaskDone(t) == th[t].pc = "done" /\ th[t].kind = "order"
CustomerTaskDone(t) == th[t].pc = "done" /\ th[t].kind = "customer"
NoCreates(f) == \A m \in Models : f.creates[m] = 0
NoWrites(f) == \A m \in Models : f.writes[m] = 0
SaleOrdersOf(id) == Matching(orders, "x_woo_order_id", ErpChar(PyInt(id)))
ProductsOf(b) ==
    Matching(products, "x_woo_id", ErpChar(ExternalProductId(b.order_id, b.product_id)))
LinesOf(oid) == SelectSeq(lines, LAMBDA l : l.order_id = oid)
\* what C1 says of a finished call
UpdatedOnly(f) ==
    /\ f.writes["sale.order"] = 1
    /\ f.writes["res.partner"] = 0
    /\ NoCreates(f)
    /\ f.order_id \in SaleOrdersOf(f.data.id)
    /\ (f.data.status = "completed" /\ f.result = "True"
          => orders[f.order_id].state = "sale")

\* C1 (as stated): a process_woo_order call for an order id the ERP already
\* holds a sale order for issues exactly one write on that sale order and no
\* create of any kind; for status 'completed' the write sets state 'sale'.
C1_Original ==
    \A t \in Tasks : OrderTaskDone(t) /\ th[t].existed => UpdatedOnly(th[t])

\* C1 (amended): the same, provided the existence lookup itself did not fail
\* (a failed lookup returns the empty list and the call takes the new-order
\* path).
C1_UpdateOnly ==
    \A t \in Tasks :
        OrderTaskDone(t) /\ th[t].existed /\ th[t].lookup # "failed"
            => UpdatedOnly(th[t])

C1_Witness ==
    \E t \in Tasks :
        /\ OrderTaskDone(t) /\ th[t].existed /\ th[t].lookup = "found"
        /\ th[t].data.status = "completed" /\ th[t].result = "True"
        /\ orders[th[t].order_id].state = "sale"
        /\ th[t].writes["sale.order"] = 1

\* C2: after non-overlapping process_woo_order calls in which no ERP call
\* failed, the ERP holds at most one sale order per storefront order id.
C2_NoDuplicateSaleOrder ==
    failures = 0 =>
        \A i, j \in 1..Len(orders) :
            orders[i].x_woo_order_id = orders[j].x_woo_order_id => i = j

C2_Witness ==
    /\ failures = 0
    /\ Len(orders) = 2
    /\ OrderTaskDone("t1") /\ th["t1"].existed /\ th["t1"].lookup = "found"

\* C3: two sale orders for one storefront order id are reachable when two
\* tasks for that id overlap (C3_Witness), and, no call failing, only then:
\* the lookup and the create are separate steps.
C3_DuplicateOnlyWhenOverlapping ==
    (\E i, j \in 1..Len(orders) :
        i # j /\ orders[i].x_woo_order_id = orders[j].x_woo_order_id) => overlap

C3_Witness ==
    /\ failures = 0
    /\ \E i, j \in 1..Len(orders) :
         i # j /\ orders[i].x_woo_order_id = orders[j].x_woo_order_id
    /\ \A t \in Tasks : OrderTaskDone(t) /\ th[t].lookup = "missed" /\ ~th[t].existed
\* C4: a customer processed once by process_woo_customer and processed again
\* with the identical payload, no ERP call having failed, gets no
\* second ERP partner: the second call creates nothing and returns the
\* partner id the first call returned, the partner mapped to the customer id.
C4_CustomerUpsertIdempotent ==
    \A t \in Tasks :
        /\ CustomerTaskDone(t) /\ failures = 0 /\ Truthy(th[t].data.id)
        /\ th[t].prev # <<>>
        /\ th[t].prev[1].data = th[t].data
        => /\ th[t].creates["res.partner"] = 0
           /\ th[t].result = "True"
           /\ th[t].partner_id = th[t].prev[1].partner_id
           /\ th[t].mapped = {th[t].partner_id}

C4_Witness ==
    \E t \in Tasks :
        /\ CustomerTaskDone(t) /\ failures = 0 /\ Truthy(th[t].data.id)
        /\ th[t].prev # <<>>
        /\ th[t].prev[1].data = th[t].data
        /\ th[t].partner_id = 2 /\ Len(partners) = 2

\* C5: starting from an ERP without partners, after non-overlapping customer
\* upserts in which no ERP call failed, no two partners carry the same
\* non-empty storefront customer id in x_woo_id.
C5_OnePartnerPerCustomerId ==
    failures = 0 =>
        \A c \in CustomerIds \ {0} :
            Cardinality(Matching(partners, "x_woo_id", ErpChar(PyInt(c)))) <= 1

\* two partners, one of them re-mapped by the email fallback
C5_Witness ==
    /\ failures = 0
    /\ Len(partners) = 2
    /\ \E t \in Tasks : th[t].pc = "done" /\ th[t].writes["res.partner"] = 1
    /\ \A c \in CustomerIds \ {0} : Matching(partners, "x_woo_id", ErpChar(PyInt(c))) # {}

C7_AttemptIffSynced ==
    \A t \in Tasks :
        OrderTaskDone(t) /\ th[t].lookup \in {"missed", "failed"}
        => /\ th[t].attempted <=> th[t].success_count > 0
           /\ th[t].result = "True" <=> th[t].success_count > 0
           /\ th[t].creates["sale.order"] <= (IF th[t].attempted THEN 1 ELSE 0)

\* both bookings synced, the header create failed, the result is true
C7_Witness ==
    \E t \in Tasks :
        /\ OrderTaskDone(t) /\ th[t].lookup = "missed"
        /\ Len(Bookings(th[t])) = 2 /\ th[t].success_count = 2
        /\ th[t].attempted /\ th[t].creates["sale.order"] = 1 /\ th[t].order_id = 0
        /\ th[t].result = "True"

\* C8 (as stated): a booking with quantity <= 0 gets no order line, and the
\* failure does not abort the rest of the batch: the header created by the
\* call carries a line for every booking with a positive quantity and none
\* for the others.
C8_NonPositiveQuantityFailsCleanly ==
    \A t \in Tasks :
        OrderTaskDone(t) /\ th[t].lookup = "missed" /\ Truthy(th[t].order_id)
        => /\ \A k \in 1..Len(LinesOf(th[t].order_id)) :
                LinesOf(th[t].order_id)[k].product_uom_qty > 0
           /\ Len(LinesOf(th[t].order_id)) =
                Cardinality({i \in 1..Len(Bookings(th[t])) : Bookings(th[t])[i].quantity > 0})

\* C9: for an order not yet in the ERP with n >= 1 line items, all with a
\* positive quantity, and no ERP call failing, process_woo_order creates one
\* header and n lines, line i with the quantity of booking i, its product,
\* and a unit price p with p * quantity = total.
C9_OneHeaderOneLinePerBooking ==
    \A t \in Tasks :
        LET f == th[t]
            B == Bookings(f)
            L == LinesOf(f.order_id)
        IN  /\ OrderTaskDone(t) /\ ~f.existed /\ f.clean
            /\ Len(B) >= 1 /\ \A i \in 1..Len(B) : B[i].quantity > 0
            => /\ f.creates["sale.order"] = 1
               /\ SaleOrdersOf(f.data.id) = {f.order_id}
               /\ f.creates["product.product"] = Cardinality({B[i].product_id : i \in 1..Len(B)})
               /\ f.creates["sale.order.line"] = Len(B)
               /\ Len(L) = Len(B)
               /\ \A i \in 1..Len(B) :
                    /\ L[i].product_uom_qty = B[i].quantity
                    /\ L[i].product_id \in ProductsOf(B[i])
                    /\ L[i].price_unit.num * B[i].quantity = B[i].total * L[i].price_unit.den

\* two lines, the first at unit price 75/2
C9_Witness ==
    \E t \in Tasks :
        /\ OrderTaskDone(t) /\ ~th[t].existed /\ th[t].clean
        /\ Len(Bookings(th[t])) = 2
        /\ Len(LinesOf(th[t].order_id)) = 2
        /\ LinesOf(th[t].order_id)[1].price_unit = [num |-> 75, den |-> 2]
        /\ LinesOf(th[t].order_id)[2].product_uom_qty = 3

\* C10: an order not yet in the ERP without line items: process_woo_order
\* returns failure and issues no create and no write on any model.
C10_NoBookingsNoWrite ==
    \A t \in Tasks :
        OrderTaskDone(t) /\ ~th[t].existed /\ Len(th[t].data.line_items) = 0
        => th[t].result = "False" /\ NoCreates(th[t]) /\ NoWrites(th[t])

C10_Witness ==
    \E t \in Tasks :
        /\ OrderTaskDone(t) /\ ~th[t].existed /\ Len(th[t].data.line_items) = 0
        /\ th[t].lookup = "missed" /\ th[t].result = "False"
        /\ Len(orders) = 1 /\ Len(lines) = 1
\* C11: update_existing_order issues one write that carries state 'sale' for
\* status 'completed', 'cancel' for 'cancelled' and no state for any other
\* status (the note is always written), and returns true iff the write
\* succeeded; a failed write changes nothing.
C11_UpdateMapping ==
    [][\A t \in Tasks :
        (th[t].pc = "update" /\ th'[t] # th[t])
        => LET id == th[t].order_id
               st == th[t].data.status
               ok == failures' = failures
           IN  /\ th'[t].pc = "done"
               /\ th'[t].result = Bool(ok)
               /\ th'[t].writes = [th[t].writes EXCEPT !["sale.order"] = @ + 1]
               /\ th'[t].creates = th[t].creates
               /\ ~ok => orders' = orders
               /\ ok => /\ orders' = [orders EXCEPT ![id] = orders'[id]]
                        /\ orders'[id].noted
                        /\ orders'[id].x_woo_order_id = orders[id].x_woo_order_id
                        /\ orders'[id].partner_id = orders[id].partner_id
                        /\ orders'[id].state =
                             (CASE st = "completed" -> "sale"
                                [] st = "cancelled" -> "cancel"
                                [] OTHER -> orders[id].state)]_vars

\* an order already in state 'sale' updated with status 'processing': the
\* note is written, the state stays
C11_Witness ==
    \E t \in Tasks :
        /\ OrderTaskDone(t) /\ th[t].lookup = "found" /\ th[t].result = "True"
        /\ th[t].data.status = "processing"
        /\ orders[th[t].order_id].state = "sale" /\ orders[th[t].order_id].noted
C13_BackfillOnlyWhenLacking ==
    [][\A t \in Tasks :
        (th[t].pc = "cust_backfill" /\ th'[t] # th[t])
        => LET p == th[t].partner_id
           IN  Truthy(partners[p].x_woo_id.v)
               => partners'[p].x_woo_id = partners[p].x_woo_id]_vars
\* C14: create_sale_order_in_odoo resolves or creates the customer before it
\* creates anything else, and when that yields no partner id it ends without
\* a sale order header and without order lines.
C14_NoPartnerNoSaleOrder ==
    \A t \in Tasks :
        th[t].kind = "order"
        => /\ th[t].pc \in {"cust_xid", "cust_email", "cust_backfill", "cust_create"}
              => th[t].creates["sale.order"] = 0 /\ th[t].creates["sale.order.line"] = 0
           /\ (\/ th[t].pc \in {"header", "line_search", "line_create"}
               \/ th[t].creates["sale.order"] > 0
               \/ th[t].creates["sale.order.line"] > 0)
              => Truthy(th[t].partner_id)
           /\ (th[t].pc = "done" /\ th[t].attempted /\ ~Truthy(th[t].partner_id))
              => /\ th[t].creates["sale.order"] = 0
                 /\ th[t].creates["sale.order.line"] = 0
                 /\ th[t].order_id = 0

\* the customer could be neither found nor created: the bookings are synced,
\* the sale order is given up
C14_Witness ==
    \E t \in Tasks :
        /\ OrderTaskDone(t) /\ th[t].attempted /\ ~Truthy(th[t].partner_id)
        /\ th[t].creates["product.product"] > 0
        /\ th[t].creates["res.partner"] = 1 /\ partners = <<>>
        /\ SaleOrdersOf(th[t].data.id) = {}
\* C15: process_woo_order, process_woo_customer, sync_booking_to_odoo and
\* scheduled_sync let no exception escape: whatever the payload lacks and
\* whichever ERP or storefront call fails, a started call ends, an order or
\* customer call with True or False and a scheduled run with None; a
\* scheduled run whose fetch failed has synced nothing.
C15_NoExceptionEscapes ==
    /\ [](\A t \in Tasks :
            /\ th[t].pc = "done" /\ th[t].kind \in {"order", "customer"}
               => th[t].result \in {"True", "False"}
            /\ th[t].pc = "done" /\ th[t].kind = "scheduled"
               => th[t].result = "None"
            /\ th[t].kind = "scheduled" /\ th[t].lookup = "failed"
               => th[t].pc = "done" /\ th[t].success_count = 0 /\ NoCreates(th[t]))
    /\ \A t \in Tasks : Running(t) ~> th[t].pc = "done"

\* a scheduled run that fetched an order without a line total ended with
\* nothing synced, after an earlier call had synced a booking
C15_Witness ==
    \E t \in Tasks :
        /\ th[t].pc = "done" /\ th[t].kind = "scheduled"
        /\ th[t].lookup = "failed" /\ ~th[t].clean /\ th[t].result = "None"
        /\ products # <<>>

\* C16: every batch loop attempts each of its items: a call of
\* process_woo_order leaves the booking loop only after the last booking, and
\* once the header exists the order-line loop of create_sale_order_in_odoo
\* ends only after it reached the last booking.
C16_EveryItemAttempted ==
    \A t \in Tasks :
        /\ (th[t].kind = "order" /\ th[t].attempted) => th[t].success_count > 0
        /\ (OrderTaskDone(t) /\ th[t].lookup # "found" /\ Truthy(th[t].order_id))
           => th[t].idx = Len(Bookings(th[t]))
\* a call of create_record, update_record or search_records
LazyCall(t) == th[t].kind = "client" /\ th[t].data.op # "authenticate"

\* C17: search_records always returns a list, never None: the empty list
\* when nothing matches and the empty list when authentication, the search or
\* the read fails; a list of the records otherwise.
C17_SearchReturnsSequence ==
    \A t \in Tasks :
        (th[t].kind = "client" /\ th[t].pc = "done" /\ th[t].data.op = "search")
        => /\ th[t].ret.ty = "list"
           /\ ~th[t].clean => th[t].ret.v = <<>>
           /\ th[t].lookup = "missed" => th[t].ret.v = <<>>
           /\ th[t].lookup = "found" => th[t].ret.v = th[t].ids /\ th[t].ids # <<>>

\* a search that failed although a partner matches returns the empty list
C17_Witness ==
    \E t \in Tasks :
        /\ th[t].kind = "client" /\ th[t].pc = "done" /\ th[t].data.op = "search"
        /\ ~th[t].clean /\ th[t].ret.ty = "list" /\ th[t].ret.v = <<>>
        /\ Matching(partners, "email", th[t].data.email) # {}

\* C18: an operation whose lazy authentication failed issues no create, write
\* or search call and returns its failure value.
C18_FailedAuthShortCircuits ==
    \A t \in Tasks :
        (LazyCall(t) /\ th[t].auth = "failed")
        => /\ th[t].sent = <<>>
           /\ th[t].pc = "done"
              => /\ th[t].ret.ty = OnError(th[t].data.op).ty
                 /\ th[t].ret.v = OnError(th[t].data.op).v

\* the test of self.uid and the authenticate calls of one operation agree:
\* one authenticate if the test saw no session id, none if it saw one
AuthenticatedIffNoSession(t) ==
    LazyCall(t)
    => th[t].auths = (IF th[t].pc \in {"c_check", "c_auth"} \/ ValidUid(th[t].uid_seen)
                      THEN 0 ELSE 1)

\* C19 as stated: authenticate is called exactly when no session id is cached
\* at the test, and the operation that follows a failed authentication of
\* its caller authenticates again.
C19_Original ==
    \A t \in Tasks :
        /\ AuthenticatedIffNoSession(t)
        /\ (LazyCall(t) /\ th[t].after_failed /\ th[t].pc \notin {"c_check", "c_auth"})
           => th[t].auths >= 1

\* C19, amended: authenticate is called exactly when no session id is cached
\* at the test; a failed authenticate leaves self.uid as it was or puts False
\* there, never a mark of its own, and a successful one caches a session id:
\* so the operation that follows a failed authentication authenticates again
\* exactly if it finds no session id cached.
C19_AuthenticateIffNoSession ==
    [][\A t \in Tasks :
        /\ AuthenticatedIffNoSession(t)'
        /\ (th[t].pc = "c_check" /\ th'[t] # th[t])
           => (th'[t].pc = "c_auth" <=> ~ValidUid(uid))
        /\ (th[t].pc = "c_auth" /\ th'[t] # th[t])
           => IF th'[t].auth = "failed" THEN uid' \in {uid, -1} ELSE ValidUid(uid')]_vars

\* an operation whose caller's previous authentication had failed
\* authenticates again, succeeds and creates its record
C19_Witness ==
    \E t \in Tasks :
        /\ LazyCall(t) /\ th[t].pc = "done" /\ th[t].after_failed
        /\ th[t].data.op = "create" /\ th[t].auths = 1 /\ th[t].auth = "ok"
        /\ th[t].ret.ty = "int"

\* C20: whatever the interleaving of the callers, every create, write, search
\* or read call that is issued carries a valid session id.
C20_EveryCallWithValidSession ==
    \A t \in Tasks :
        th[t].kind = "client"
        => \A i \in 1..Len(th[t].sent) : ValidUid(th[t].sent[i])
\* a call of extract_booking_data that has returned
Extracted(t) == th[t].kind = "extract" /\ th[t].pc = "done"

\* C21: extract_booking_data returns one booking per line item, in line-item
\* order, and a line item without metadata gives persons = 1 and the order's
\* creation timestamp as booking_date.
C21_OneBookingPerLineItem ==
    \A t \in Tasks :
        Extracted(t)
        => LET items == LineItems(th[t].data)
               B == th[t].bookings
           IN  /\ Len(B) = Len(items)
               /\ \A i \in 1..Len(items) :
                    /\ B[i].order_id = th[t].data.id
                    /\ B[i].product_id = items[i].product_id
                    /\ B[i].quantity = items[i].quantity
                    /\ B[i].total = items[i].total
                    /\ MetaData(items[i]) = <<>>
                       => /\ B[i].persons = 1
                          /\ B[i].booking_date = th[t].data.date_created

\* two line items without metadata, two bookings in their order
C21_Witness ==
    \E t \in Tasks :
        /\ Extracted(t) /\ Len(th[t].bookings) = 2
        /\ \A i \in 1..2 : MetaData(LineItems(th[t].data)[i]) = <<>>
        /\ th[t].bookings[1].product_id = 7 /\ th[t].bookings[2].product_id = 9
        /\ th[t].bookings[2].booking_date = "2024-04-30T08:00:00"

\* the metadata entries of a line item whose lower-cased key contains
\* 'booking_date' or 'from'
DateEntries(md) ==
    {k \in 1..Len(md) :
        \/ Contains(<<"b", "o", "o", "k", "i", "n", "g", "_", "d", "a", "t", "e">>,
                    lower(MetaKey(md[k])))
        \/ Contains(<<"f", "r", "o", "m">>, lower(MetaKey(md[k])))}
Last(S) == CHOOSE k \in S : \A j \in S : j <= k

\* C22: the booking_date of a line item is the value of the last metadata
\* entry whose lower-cased key contains 'booking_date' or 'from', and the
\* order's creation timestamp when no entry matches.
C22_LastMatchingKeyWins ==
    \A t \in Tasks :
        Extracted(t)
        => \A i \in 1..Len(LineItems(th[t].data)) :
             LET md == MetaData(LineItems(th[t].data)[i])
             IN  th[t].bookings[i].booking_date =
                   (IF DateEntries(md) = {}
                    THEN th[t].data.date_created
                    ELSE MetaValue(md[Last(DateEntries(md))]))

\* 'Booking From' and then 'booking_date' on one line item: the later value
C22_Witness ==
    \E t \in Tasks :
        /\ Extracted(t) /\ Len(th[t].bookings) = 1
        /\ LET md == MetaData(LineItems(th[t].data)[1])
           IN  /\ Len(md) = 2 /\ DateEntries(md) = {1, 2}
               /\ MetaValue(md[1]) = "2024-05-01T10:00:00"
               /\ MetaValue(md[2]) = "2024-06-02T09:00:00"
        /\ th[t].bookings[1].booking_date = "2024-06-02T09:00:00"

\* the external id and the SKU of the bookings of order 100, written out
Text100(b) ==
    CASE b.product_id = 7 -> <<"1", "0", "0", "_", "7">>
      [] b.product_id = 9 -> <<"1", "0", "0", "_", "9">>
SkuText100(b) == <<"B", "O", "O", "K", "I", "N", "G", "_">> \o Text100(b)

\* C23: the product sync_booking_to_odoo creates for a booking carries the
\* external id '{order_id}_{product_id}' and the SKU
\* 'BOOKING_{order_id}_{product_id}' ('100_7' and 'BOOKING_100_7' for order
\* 100, product 7); the product it takes for existing, and the product
\* create_sale_order_in_odoo puts on the order line, carry that external id.
C23_CompositeExternalId ==
    [][\A t \in Tasks :
         (th[t].kind = "order" /\ th[t].data.id = 100
            /\ th[t].pc \in {"sync_search", "sync_create", "line_search"})
         => LET b == Bookings(th[t])[th[t].idx]
            IN  /\ (th[t].pc = "sync_create" /\ products' # products)
                   => /\ products' = Append(products, products'[Len(products')])
                      /\ products'[Len(products')].x_woo_id = PyStr(Text100(b))
                      /\ products'[Len(products')].default_code = PyStr(SkuText100(b))
                /\ (th[t].pc = "sync_search" /\ th'[t].pc # "sync_create"
                      /\ th'[t].clean)
                   => \E i \in 1..Len(products) :
                        products[i].x_woo_id = PyStr(Text100(b))
                /\ (th[t].pc = "line_search" /\ th'[t].pc = "line_create")
                   => products[th'[t].product_id].x_woo_id = PyStr(Text100(b))
      ]_vars

\* order 100 with product 7: the product '100_7' with SKU 'BOOKING_100_7' is
\* on the order line of the sale order
C23_Witness ==
    \E l \in 1..Len(lines) :
        /\ orders[lines[l].order_id].x_woo_order_id = PyStr(100)
        /\ products[lines[l].product_id].x_woo_id = PyStr(<<"1", "0", "0", "_", "7">>)
        /\ products[lines[l].product_id].default_code
             = PyStr(<<"B", "O", "O", "K", "I", "N", "G", "_", "1", "0", "0", "_", "7">>)

\* a call of sync_odoo_to_woo
Reverse(t) == th[t].kind = "reverse"
\* the storefront calls sync_product_to_woo issued for its i-th product
ReadsFor(f, i) == {k \in 1..Len(f.store_reads) : f.store_reads[k].i = i}
WritesFor(f, i) == {k \in 1..Len(f.store_writes) : f.store_writes[k].i = i}

\* C24: the reverse sync never creates a product on the storefront: the set
\* of storefront products stays what it was; for an ERP product without a
\* storefront external id no storefront write is issued and
\* sync_product_to_woo returns false; and every storefront write that is
\* issued is an update of a product the storefront has.
C24_ReverseSyncNeverCreates ==
    [][/\ \A id \in StoreIds : woo'[id].exists = woo[id].exists
       /\ \A t \in Tasks :
            Reverse(t) /\ th'[t].kind = "reverse"
            => LET f == th'[t]
               IN  /\ \A i \in 1..Len(f.pushed) :
                        f.odoo_products[i].x_woo_id = PyBool(FALSE)
                        => ~f.pushed[i] /\ WritesFor(f, i) = {}
                   /\ \A k \in 1..Len(f.store_writes) :
                        /\ f.store_writes[k].id \in StoreIds
                        /\ woo[f.store_writes[k].id].exists
      ]_vars

\* a run over a product without storefront id and the product of class 7:
\* the first is skipped, the second is updated on the storefront
C24_Witness ==
    \E t \in Tasks :
        /\ Reverse(t) /\ th[t].pc = "done"
        /\ Len(th[t].odoo_products) = 2
        /\ th[t].odoo_products[1].x_woo_id = PyBool(FALSE)
        /\ th[t].pushed = <<FALSE, TRUE>>
        /\ th[t].store_writes = <<[i |-> 2, id |-> 7]>>
        /\ woo[7].regular_price = 60

\* the external ids sync_booking_to_odoo writes for the bookings of order 100
CompositeIds ==
    {PyStr(<<"1", "0", "0", "_", "7">>), PyStr(<<"1", "0", "0", "_", "9">>)}

\* C30: for an ERP product whose external id is the composite
\* '{order_id}_{product_id}' written by sync_booking_to_odoo,
\* sync_product_to_woo issues no storefront read and no storefront update,
\* and returns false.
C30_CompositeIdNeverPushed ==
    \A t \in Tasks :
        Reverse(t)
        => \A i \in 1..Len(th[t].odoo_products) :
             th[t].odoo_products[i].x_woo_id \in CompositeIds
             => /\ ReadsFor(th[t], i) = {}
                /\ WritesFor(th[t], i) = {}
                /\ (i <= Len(th[t].pushed) => ~th[t].pushed[i])

\* a task that is inside a job the scheduler loop called
InScheduledJob(t) == Running(t) /\ th[t].kind \in {"scheduled", "cleanup"}

\* C25: the jobs of the scheduler loop run one at a time: at no time are two
\* scheduled jobs, or two runs of one job, executing at once (webhook tasks
\* may run beside them).
C25_OneScheduledJobAtATime ==
    Cardinality({t \in Tasks : InScheduledJob(t)}) <= 1

\* a step that creates no order line, no product and no partner
NothingCreated == lines' = lines /\ products' = products /\ partners' = partners

\* C26 (as stated): once the ERP holds a sale order for an order id, no later
\* process_woo_order call for that id creates lines, products or partners.
C26_Original ==
    [][\A t \in Tasks :
         (th[t].kind = "order" /\ th[t].existed) => NothingCreated]_vars

\* C26 (amended): the same, provided the existence lookup of the later call
\* did not fail; a sale order left without its lines is then never repaired
\* by a re-delivery.
C26_NoRepairOnRedelivery ==
    [][\A t \in Tasks :
         (th[t].kind = "order" /\ th[t].existed /\ th[t].lookup # "failed")
         => NothingCreated]_vars

\* the header of an order with one booking was left without its line; the
\* re-delivery found the header, wrote it and left it without lines
C26_Witness ==
    \E t \in Tasks :
        /\ OrderTaskDone(t) /\ th[t].existed /\ th[t].lookup = "found"
        /\ Len(LineItems(th[t].data)) = 1
        /\ th[t].writes["sale.order"] = 1 /\ th[t].result = "True"
        /\ Len(orders) = 1 /\ lines = <<>>

\* a finished call in which exactly one ERP call failed, a lookup made at
\* step pc while a record matching it existed, and no other call has failed
OnlyLookupFailed(t, pc) ==
    /\ th[t].pc = "done" /\ failures = 1
    /\ Len(th[t].missed) = 1
    /\ th[t].missed[1].pc = pc /\ th[t].missed[1].n >= 1
PartnersOf(f) ==
    Matching(partners, "x_woo_id", ErpChar(PyInt(CustomerData(f).woo_id)))
\* the call created a second sale order for its order id
SecondSaleOrder(t) ==
    /\ th[t].creates["sale.order"] = 1
    /\ Cardinality(SaleOrdersOf(th[t].data.id)) = th[t].missed[1].n + 1
\* the call created a second product for the booking whose lookup failed
SecondProduct(t) ==
    /\ th[t].creates["product.product"] >= 1
    /\ Cardinality(ProductsOf(Bookings(th[t])[th[t].missed[1].idx]))
         = th[t].missed[1].n + 1
\* the call created a second partner for its customer id
SecondPartner(t) ==
    /\ th[t].creates["res.partner"] = 1
    /\ Cardinality(PartnersOf(th[t])) = th[t].missed[1].n + 1

\* C27 (as stated): a process_woo_order call whose sale-order lookup fails
\* while the rest succeeds creates a second sale order; a failed external-id
\* lookup of get_or_create_product creates a second product, and a failed
\* external-id lookup of get_or_create_customer a second partner.
C27_Original ==
    \A t \in Tasks :
        th[t].kind = "order"
        => /\ (OnlyLookupFailed(t, "exists_check") /\ LineItems(th[t].data) # <<>>)
              => SecondSaleOrder(t)
           /\ OnlyLookupFailed(t, "sync_search") => SecondProduct(t)
           /\ OnlyLookupFailed(t, "cust_xid") => SecondPartner(t)

\* C27 (amended): the same for the sale order and the product; the partner
\* is looked up by email next, and a second partner is created only when no
\* partner has the customer's email; otherwise the partner found by email is
\* used, its external id is written again, and no partner is created.
C27_FailedLookupDuplicates ==
    \A t \in Tasks :
        th[t].kind = "order"
        => /\ (OnlyLookupFailed(t, "exists_check") /\ LineItems(th[t].data) # <<>>)
              => SecondSaleOrder(t)
           /\ OnlyLookupFailed(t, "sync_search") => SecondProduct(t)
           /\ OnlyLookupFailed(t, "cust_xid")
              => IF th[t].missed[1].alt = 0
                 THEN SecondPartner(t)
                 ELSE /\ th[t].creates["res.partner"] = 0
                      /\ th[t].writes["res.partner"] = 1
                      /\ Cardinality(PartnersOf(th[t])) >= th[t].missed[1].n

\* order 555 delivered twice: the lookup of the second delivery fails, and
\* the ERP holds two sale orders for 555, one partner and one product
C27_Witness ==
    \E t \in Tasks :
        /\ th[t].kind = "order" /\ th[t].data.id = 555
        /\ OnlyLookupFailed(t, "exists_check") /\ SecondSaleOrder(t)
        /\ Cardinality(SaleOrdersOf(555)) = 2
        /\ Len(partners) = 1 /\ Len(products) = 1 /\ Len(lines) = 2

\* the deliveries that finish an update of sale order i in this step
UpdatersOf(i) ==
    {t \in Tasks : /\ th[t].kind = "order" /\ th[t].pc = "update"
                   /\ th[t].order_id = i /\ th'[t].pc = "done"}

\* C28: a sale order is created in state 'draft' whatever the status of the
\* creating delivery; afterwards, in successful deliveries, its state is
\* changed only by a delivery for its order id, to 'sale' by 'completed' and
\* to 'cancel' by 'cancelled', whatever the state was (also from 'cancel' to
\* 'sale'), and any other status leaves it: the state is that of the last
\* 'completed' or 'cancelled' delivered after the creation, 'draft' if none.
C28_LastWriteWins ==
    [][failures' = 0 =>
        \A i \in 1..Len(orders') :
            IF i > Len(orders)
            THEN orders'[i].state = "draft"
            ELSE IF UpdatersOf(i) = {}
            THEN orders'[i].state = orders[i].state
            ELSE \A t \in UpdatersOf(i) :
                   /\ orders[i].x_woo_order_id = ErpChar(PyInt(th[t].data.id))
                   /\ orders'[i].state =
                        (CASE th[t].data.status = "completed" -> "sale"
                           [] th[t].data.status = "cancelled" -> "cancel"
                           [] OTHER -> orders[i].state)
      ]_vars

\* a 'completed' delivery is about to write a sale order that an earlier
\* delivery cancelled; the order was created by a 'completed' delivery
C28_Witness ==
    \E t \in Tasks :
        /\ failures = 0 /\ deliveries = 3
        /\ th[t].kind = "order" /\ th[t].pc = "update"
        /\ th[t].data.status = "completed"
        /\ orders[th[t].order_id].state = "cancel"

\* a finished re-delivery in which no ERP call failed, of an order whose
\* products an earlier call synced without creating the sale order
CleanRetry(t) ==
    /\ OrderTaskDone(t) /\ th[t].clean
    /\ ~th[t].existed /\ th[t].lookup = "missed"
    /\ th[t].synced # <<>>
    /\ \A i \in 1..Len(th[t].synced) : th[t].synced[i] >= 1

\* C29: when an earlier call synced the products of an order but created no
\* sale order, a later re-delivery in which no ERP call fails creates exactly
\* one sale order with one line per booking, and no product for a booking
\* that was already synced.
C29_RetryConverges ==
    \A t \in Tasks :
        CleanRetry(t)
        => /\ th[t].result = "True"
           /\ th[t].creates["sale.order"] = 1
           /\ Cardinality(SaleOrdersOf(th[t].data.id)) = 1
           /\ Len(LinesOf(th[t].order_id)) = Len(LineItems(th[t].data))
           /\ th[t].creates["sale.order.line"] = Len(LineItems(th[t].data))
           /\ th[t].creates["product.product"] = 0
           /\ \A i \in 1..Len(th[t].synced) :
                Cardinality(ProductsOf(Bookings(th[t])[i])) = th[t].synced[i]

\* the first delivery of an order with two bookings created both products
\* and failed before the header; the re-delivery created the sale order
\* and its two lines, and no product
C29_Witness ==
    \E t \in Tasks :
        /\ CleanRetry(t) /\ failures = 1 /\ deliveries = 2
        /\ th[t].synced = <<1, 1>>
        /\ Len(products) = 2 /\ Len(orders) = 1 /\ Len(lines) = 2
=============================================================================
